---- MODULE Spec2Model ----
(***************************************************************************)
(* Model of privval/signer_listener_endpoint.go: SignerListenerEndpoint.   *)
(* One endpoint, its heartbeat goroutine, one caller of Start, one caller  *)
(* of Stop, external callers of SendRequest, and the environment: the      *)
(* remote signer (dials, answers, disconnects) and the ticker's clock.     *)
(*                                                                         *)
(* net.Conn / net.Listener behaviour assumed by the model:                 *)
(*  - Close() always leaves the handle closed; it may still return an      *)
(*    error, and it does return one when the handle was closed already.    *)
(*  - a connection is an ordered byte stream: the peer answers the frames  *)
(*    in the order they were written and a read takes the oldest unread    *)
(*    answer, whichever exchange wrote the request it answers.             *)
(*  - a read with no answer available ends with a timeout (the deadline    *)
(*    of the connection) or with an I/O error when the link is down.       *)
(*  - Accept on an open listener blocks until a peer has dialled or it     *)
(*    fails; on a closed listener it returns at once, with an error or     *)
(*    with (nil, nil).                                                     *)
(***************************************************************************)
EXTENDS Integers, Sequences, FiniteSets, TLC

\* ---- bounds ----
MaxConns == 2      \* connections the remote signer dials in one run
MaxWire  == 2      \* frames in flight on one connection (requests + answers)
MaxStops == 2      \* calls of OnStop in one run

\* ---- names ----
NIL  == "nil"
CH   == "ch"       \* the channel made at line 82
Free == "free"
HB   == "hb"       \* the goroutine of lines 86-114
Callers    == {"c1"}                  \* external callers of SendRequest
Exchangers == Callers \cup {HB}       \* everything that calls SendRequest
Connectors == {"start", HB}           \* everything that calls connect
ConnIds    == 1..MaxConns
NoConn     == 0                       \* ve.conn == nil

NoMsg == [to |-> NIL, kind |-> NIL]
NoRes == [err |-> "na", resp |-> NoMsg]
ErrRes(e) == [err |-> e, resp |-> NoMsg]
OkRes(m)  == [err |-> "none", resp |-> m]

VARIABLES
  mtx,          \* ve.mtx: Free or the holder
  listener,     \* ve.listener: "open" | "closed"
  backlog,      \* a peer has dialled and waits to be accepted
  conn,         \* ve.conn: NoConn or a connection id
  nextConn,     \* id of the next connection Accept hands out
  closedOk,     \* Close() has returned nil on the connection ve.conn refers to
  cst,          \* per connection: local end ("unused"|"open"|"closed"), peer up
  inbox,        \* per connection: requests written, not yet answered
  replies,      \* per connection: answers sent by the peer, not yet read
  cancelPingCh, \* ve.cancelPingCh: NIL or CH
  chClosed,     \* close(ve.cancelPingCh) has run
  panicked,     \* close of a closed channel
  ticker,       \* ve.pingTicker: "none" | "running" | "stopped"
  tickPending,  \* a tick waits in pingTicker.C
  startPc,      \* caller of OnStart
  hbPc,         \* heartbeat goroutine
  hbCh,         \* the channel the goroutine's select waits on
  tickConnects, \* connect() calls made while handling the current tick
  stopPc,       \* caller of OnStop
  stopCalls,    \* number of OnStop calls so far
  srPc,         \* per exchanger: position in SendRequest
  res,          \* per exchanger: what its last SendRequest returned
  cnPc,         \* per connector: position in connect
  cnRes         \* per connector: what its last connect returned

vars == <<mtx, listener, backlog, conn, nextConn, closedOk, cst, inbox, replies,
          cancelPingCh, chClosed, panicked, ticker, tickPending, startPc,
          hbPc, hbCh, tickConnects, stopPc, stopCalls, srPc, res, cnPc, cnRes>>

netVars   == <<listener, backlog, conn, nextConn, closedOk, cst, inbox, replies>>
pingVars  == <<cancelPingCh, chClosed, panicked, ticker, tickPending>>
hbVars    == <<hbPc, hbCh, tickConnects>>
stopVars  == <<stopPc, stopCalls>>
srVars    == <<srPc, res>>
cnVars    == <<cnPc, cnRes>>

\* NewSignerListenerEndpoint: a listener handed in by the owner, no connection.
Init ==
  /\ mtx = Free
  /\ listener \in {"open", "closed"}
  /\ backlog = FALSE
  /\ conn = NoConn
  /\ nextConn = 1
  /\ closedOk = FALSE
  /\ cst = [c \in ConnIds |-> [local |-> "unused", peer |-> FALSE]]
  /\ inbox = [c \in ConnIds |-> <<>>]
  /\ replies = [c \in ConnIds |-> <<>>]
  /\ cancelPingCh = NIL
  /\ chClosed = FALSE
  /\ panicked = FALSE
  /\ ticker = "none"
  /\ tickPending = FALSE
  /\ startPc = "idle"
  /\ hbPc = "notLaunched"
  /\ hbCh = NIL
  /\ tickConnects = 0
  /\ stopPc = "idle"
  /\ stopCalls = 0
  /\ srPc = [p \in Exchangers |-> "idle"]
  /\ res = [p \in Exchangers |-> NoRes]
  /\ cnPc = [p \in Connectors |-> "idle"]
  /\ cnRes = [p \in Connectors |-> "none"]

----------------------------------------------------------------------------
\* net.Conn.Close on connection c: the local end is closed whatever it returns.
ConnCloseOutcomes(c) ==
  IF cst[c].local = "closed" THEN {"err"} ELSE {"ok", "err"}

ConnClosed(c) ==
  /\ cst' = [cst EXCEPT ![c].local = "closed"]
  /\ inbox' = [inbox EXCEPT ![c] = <<>>]
  /\ replies' = [replies EXCEPT ![c] = <<>>]

\* ---- the remote signer and the clock ----
PeerDial ==
  /\ listener = "open"
  /\ ~backlog
  /\ nextConn <= MaxConns
  /\ backlog' = TRUE
  /\ UNCHANGED <<mtx, listener, conn, nextConn, closedOk, cst, inbox, replies>>
  /\ UNCHANGED <<pingVars, startPc, hbVars, stopVars, srVars, cnVars>>

ReplyKinds(req) == IF req.from = HB THEN {"pong", "other"} ELSE {"other"}

PeerReply ==
  \E c \in ConnIds :
    /\ cst[c].local = "open"
    /\ cst[c].peer
    /\ inbox[c] # <<>>
    /\ \E k \in ReplyKinds(Head(inbox[c])) :
         replies' = [replies EXCEPT
                       ![c] = Append(@, [to |-> Head(inbox[c]).from, kind |-> k])]
    /\ inbox' = [inbox EXCEPT ![c] = Tail(@)]
    /\ UNCHANGED <<mtx, listener, backlog, conn, nextConn, closedOk, cst>>
    /\ UNCHANGED <<pingVars, startPc, hbVars, stopVars, srVars, cnVars>>

PeerDisconnect ==
  \E c \in ConnIds :
    /\ cst[c].local = "open"
    /\ cst[c].peer
    /\ cst' = [cst EXCEPT ![c].peer = FALSE]
    /\ inbox' = [inbox EXCEPT ![c] = <<>>]
    /\ UNCHANGED <<mtx, listener, backlog, conn, nextConn, closedOk, replies>>
    /\ UNCHANGED <<pingVars, startPc, hbVars, stopVars, srVars, cnVars>>

Tick ==
  /\ ticker = "running"
  /\ ~tickPending
  /\ tickPending' = TRUE
  /\ UNCHANGED <<cancelPingCh, chClosed, panicked, ticker>>
  /\ UNCHANGED <<mtx, netVars, startPc, hbVars, stopVars, srVars, cnVars>>

----------------------------------------------------------------------------
\* ---- connect (lines 215-246) ----
\* connect that does not wait for the mutex
ConnectLock_NoMutex(p) ==
  /\ cnPc[p] = "lock"
  /\ mtx' = p
  /\ cnPc' = [cnPc EXCEPT ![p] = "closeOld"]
  /\ UNCHANGED <<netVars, pingVars, startPc, hbVars, stopVars, srVars, cnRes>>

\* line 216: ve.mtx.Lock()
ConnectLock(p) ==
  /\ cnPc[p] = "lock"
  /\ mtx = Free
  /\ mtx' = p
  /\ cnPc' = [cnPc EXCEPT ![p] = "closeOld"]
  /\ UNCHANGED <<netVars, pingVars, startPc, hbVars, stopVars, srVars, cnRes>>

\* connect that accepts without closing the connection held so far
ConnectCloseOld_Skip(p) ==
  /\ cnPc[p] = "closeOld"
  /\ cnPc' = [cnPc EXCEPT ![p] = "accept"]
  /\ UNCHANGED <<mtx, netVars, pingVars, startPc, hbVars, stopVars, srVars, cnRes>>

\* lines 220-224: close the connection held so far; its error is only logged
ConnectCloseOld(p) ==
  /\ cnPc[p] = "closeOld"
  /\ IF conn # NoConn
       THEN /\ ConnClosed(conn)
            /\ \E o \in ConnCloseOutcomes(conn) : closedOk' = (closedOk \/ o = "ok")
       ELSE UNCHANGED <<closedOk, cst, inbox, replies>>
  /\ cnPc' = [cnPc EXCEPT ![p] = "accept"]
  /\ UNCHANGED <<mtx, listener, backlog, conn, nextConn>>
  /\ UNCHANGED <<pingVars, startPc, hbVars, stopVars, srVars, cnRes>>

\* what listener.Accept() can return in the current state
AcceptOutcomes ==
  IF listener = "closed" THEN {"err", "closed"}
  ELSE {"err"} \cup (IF backlog THEN {"ok"} ELSE {})

\* connect that assigns ve.conn only when Accept returned a connection
ConnectAccept_KeepConnOnError(p) ==
  /\ cnPc[p] = "accept"
  /\ \E o \in AcceptOutcomes :
       /\ cnRes' = [cnRes EXCEPT ![p] = o]
       /\ IF o = "ok"
            THEN /\ conn' = nextConn
                 /\ nextConn' = nextConn + 1
                 /\ cst' = [cst EXCEPT ![nextConn] = [local |-> "open", peer |-> TRUE]]
                 /\ backlog' = FALSE
                 /\ closedOk' = FALSE
            ELSE UNCHANGED <<conn, nextConn, cst, backlog, closedOk>>
  /\ mtx' = Free
  /\ cnPc' = [cnPc EXCEPT ![p] = "idle"]
  /\ UNCHANGED <<listener, inbox, replies>>
  /\ UNCHANGED <<pingVars, startPc, hbVars, stopVars, srVars>>

\* lines 227-245: ve.conn, err = Accept(); the deferred Unlock; the return.
\* Lines 237-244 are unreachable (err is nil there) and have no counterpart.
ConnectAccept(p) ==
  /\ cnPc[p] = "accept"
  /\ \E o \in AcceptOutcomes :
       /\ cnRes' = [cnRes EXCEPT ![p] = o]
       /\ IF o = "ok"
            THEN /\ conn' = nextConn
                 /\ nextConn' = nextConn + 1
                 /\ cst' = [cst EXCEPT ![nextConn] = [local |-> "open", peer |-> TRUE]]
                 /\ backlog' = FALSE
            ELSE /\ conn' = NoConn
                 /\ UNCHANGED <<nextConn, cst, backlog>>
  /\ closedOk' = FALSE
  /\ mtx' = Free
  /\ cnPc' = [cnPc EXCEPT ![p] = "idle"]
  /\ UNCHANGED <<listener, inbox, replies>>
  /\ UNCHANGED <<pingVars, startPc, hbVars, stopVars, srVars>>

connect(p) == ConnectLock(p) \/ ConnectCloseOld(p) \/ ConnectAccept(p)

----------------------------------------------------------------------------
\* ---- SendRequest (lines 152-167), writeMessage, readMessage ----
\* an external caller enters SendRequest
SendRequestCall(p) ==
  /\ p \in Callers
  /\ srPc[p] = "idle"
  /\ srPc' = [srPc EXCEPT ![p] = "lock"]
  /\ res' = [res EXCEPT ![p] = NoRes]
  /\ UNCHANGED <<mtx, netVars, pingVars, startPc, hbVars, stopVars, cnVars>>

\* SendRequest that does not wait for the mutex
SendRequestLock_NoMutex(p) ==
  /\ srPc[p] = "lock"
  /\ mtx' = p
  /\ srPc' = [srPc EXCEPT ![p] = "write"]
  /\ UNCHANGED <<netVars, pingVars, startPc, hbVars, stopVars, res, cnVars>>

\* line 153: ve.mtx.Lock()
SendRequestLock(p) ==
  /\ srPc[p] = "lock"
  /\ mtx = Free
  /\ mtx' = p
  /\ srPc' = [srPc EXCEPT ![p] = "write"]
  /\ UNCHANGED <<netVars, pingVars, startPc, hbVars, stopVars, res, cnVars>>

\* writeMessage without the nil check of lines 199-201
writeMessage_NoNilCheck ==
  IF conn = NoConn THEN "io"
  ELSE IF cst[conn].local = "closed" \/ ~cst[conn].peer THEN "io"
  ELSE IF Len(inbox[conn]) + Len(replies[conn]) >= MaxWire THEN "timeout"
  ELSE "none"

\* lines 197-209: the error writeMessage returns, "none" when the frame went out
writeMessage ==
  IF conn = NoConn THEN "notconn"
  ELSE IF cst[conn].local = "closed" \/ ~cst[conn].peer THEN "io"
  ELSE IF Len(inbox[conn]) + Len(replies[conn]) >= MaxWire THEN "timeout"
  ELSE "none"

\* lines 156-159: write; an error unlocks and returns without reading
SendRequestWrite(p) ==
  /\ srPc[p] = "write"
  /\ IF writeMessage = "none"
       THEN /\ inbox' = [inbox EXCEPT ![conn] = Append(@, [from |-> p])]
            /\ srPc' = [srPc EXCEPT ![p] = "read"]
            /\ UNCHANGED <<mtx, res>>
       ELSE /\ res' = [res EXCEPT ![p] = ErrRes(writeMessage)]
            /\ srPc' = [srPc EXCEPT ![p] = "idle"]
            /\ mtx' = Free
            /\ UNCHANGED inbox
  /\ UNCHANGED <<listener, backlog, conn, nextConn, closedOk, cst, replies>>
  /\ UNCHANGED <<pingVars, startPc, hbVars, stopVars, cnVars>>

\* lines 185-195: what readMessage can return on ve.conn in the current state
readMessage ==
  IF cst[conn].local = "closed" THEN {ErrRes("io")}
  ELSE IF replies[conn] # <<>> THEN {OkRes(Head(replies[conn])), ErrRes("decode")}
  ELSE IF ~cst[conn].peer THEN {ErrRes("io")}
  ELSE {ErrRes("timeout")}

\* SendRequest that writes the request again when the read timed out
SendRequestRead_Retry(p) ==
  /\ srPc[p] = "read"
  /\ \E r \in readMessage :
       IF r.err = "timeout"
         THEN /\ srPc' = [srPc EXCEPT ![p] = "write"]
              /\ UNCHANGED <<res, mtx>>
         ELSE /\ res' = [res EXCEPT ![p] = r]
              /\ srPc' = [srPc EXCEPT ![p] = "idle"]
              /\ mtx' = Free
  /\ replies' = [replies EXCEPT ![conn] = IF @ = <<>> THEN @ ELSE Tail(@)]
  /\ UNCHANGED <<listener, backlog, conn, nextConn, closedOk, cst, inbox>>
  /\ UNCHANGED <<pingVars, startPc, hbVars, stopVars, cnVars>>

\* lines 161-166: read, the deferred Unlock, the return
SendRequestRead(p) ==
  /\ srPc[p] = "read"
  /\ \E r \in readMessage : res' = [res EXCEPT ![p] = r]
  /\ replies' = [replies EXCEPT ![conn] = IF @ = <<>> THEN @ ELSE Tail(@)]
  /\ srPc' = [srPc EXCEPT ![p] = "idle"]
  /\ mtx' = Free
  /\ UNCHANGED <<listener, backlog, conn, nextConn, closedOk, cst, inbox>>
  /\ UNCHANGED <<pingVars, startPc, hbVars, stopVars, cnVars>>

SendRequest(p) ==
  SendRequestCall(p) \/ SendRequestLock(p) \/ SendRequestWrite(p) \/ SendRequestRead(p)

\* lines 170-183: the error ping returns for what SendRequest returned
ping(r) ==
  IF r.err # "none" THEN r.err
  ELSE IF r.resp.kind # "pong" THEN "unexpected"
  ELSE "none"

----------------------------------------------------------------------------
\* ---- OnStart (lines 68-117) ----
\* line 69: the caller of Start enters connect
OnStartCall ==
  /\ startPc = "idle"
  /\ startPc' = "connect"
  /\ cnPc' = [cnPc EXCEPT !["start"] = "lock"]
  /\ cnRes' = [cnRes EXCEPT !["start"] = "none"]
  /\ UNCHANGED <<mtx, netVars, pingVars, hbVars, stopVars, srVars>>

\* OnStart that checks err but not closed
OnStartFinish_IgnoreClosed ==
  /\ startPc = "connect"
  /\ cnPc["start"] = "idle"
  /\ IF cnRes["start"] = "err"
       THEN /\ startPc' = "failed"
            /\ UNCHANGED <<cancelPingCh, ticker, hbPc>>
       ELSE /\ startPc' = "done"
            /\ cancelPingCh' = CH
            /\ ticker' = "running"
            /\ hbPc' = "select"
  /\ UNCHANGED <<chClosed, panicked, tickPending, hbCh, tickConnects>>
  /\ UNCHANGED <<mtx, netVars, stopVars, srVars, cnVars>>

\* lines 72-116: fail on err or closed, else make the channel, the ticker, the goroutine
OnStartFinish ==
  /\ startPc = "connect"
  /\ cnPc["start"] = "idle"
  /\ IF cnRes["start"] \in {"err", "closed"}
       THEN /\ startPc' = "failed"
            /\ UNCHANGED <<cancelPingCh, ticker, hbPc>>
       ELSE /\ startPc' = "done"
            /\ cancelPingCh' = CH
            /\ ticker' = "running"
            /\ hbPc' = "select"
  /\ UNCHANGED <<chClosed, panicked, tickPending, hbCh, tickConnects>>
  /\ UNCHANGED <<mtx, netVars, stopVars, srVars, cnVars>>

\* ---- the goroutine of lines 86-114 ----
\* line 88: entering the select evaluates ve.cancelPingCh. OnStop writes that
\* field without synchronisation, so once it has written nil the goroutine
\* may read nil or still the channel.
HbSelectEnter ==
  /\ hbPc = "select"
  /\ hbCh' \in {cancelPingCh} \cup (IF chClosed THEN {CH} ELSE {})
  /\ hbPc' = "wait"
  /\ UNCHANGED <<tickConnects, mtx, netVars, pingVars, startPc, stopVars, srVars, cnVars>>

\* lines 89-90: a tick is received; ping calls SendRequest
HbRecvTick ==
  /\ hbPc = "wait"
  /\ tickPending
  /\ tickPending' = FALSE
  /\ hbPc' = "ping"
  /\ srPc' = [srPc EXCEPT ![HB] = "lock"]
  /\ UNCHANGED <<hbCh, tickConnects, res, cancelPingCh, chClosed, panicked, ticker>>
  /\ UNCHANGED <<mtx, netVars, startPc, stopVars, cnVars>>

\* lines 109-111: the channel the select waits on is closed
HbRecvCancel ==
  /\ hbPc = "wait"
  /\ hbCh = CH
  /\ chClosed
  /\ ticker' = "stopped"
  /\ hbPc' = "terminated"
  /\ UNCHANGED <<hbCh, tickConnects, cancelPingCh, chClosed, panicked, tickPending>>
  /\ UNCHANGED <<mtx, netVars, startPc, stopVars, srVars, cnVars>>

\* a loop that reconnects on every ping error, ErrUnexpectedResponse included
HbAfterPing_RetryUnexpected ==
  /\ hbPc = "ping"
  /\ srPc[HB] = "idle"
  /\ IF ping(res[HB]) = "none"
       THEN /\ hbPc' = "select"
            /\ UNCHANGED <<tickConnects, cnVars>>
       ELSE /\ hbPc' = "connect"
            /\ tickConnects' = tickConnects + 1
            /\ cnPc' = [cnPc EXCEPT ![HB] = "lock"]
            /\ cnRes' = [cnRes EXCEPT ![HB] = "none"]
  /\ res' = [res EXCEPT ![HB] = NoRes]
  /\ UNCHANGED <<hbCh, mtx, netVars, pingVars, startPc, stopVars, srPc>>

\* a loop that closes and drops the connection when it returns on
\* ErrUnexpectedResponse
HbAfterPing_CloseOnUnexpected ==
  /\ hbPc = "ping"
  /\ srPc[HB] = "idle"
  /\ IF ping(res[HB]) = "none"
       THEN /\ hbPc' = "select"
            /\ UNCHANGED <<tickConnects, cnVars, netVars>>
       ELSE IF ping(res[HB]) = "unexpected"
       THEN /\ hbPc' = "terminated"
            /\ IF conn # NoConn
                 THEN ConnClosed(conn) /\ conn' = NoConn
                 ELSE UNCHANGED <<cst, inbox, replies, conn>>
            /\ UNCHANGED <<tickConnects, cnVars, listener, backlog, nextConn, closedOk>>
       ELSE /\ hbPc' = "connect"
            /\ tickConnects' = tickConnects + 1
            /\ cnPc' = [cnPc EXCEPT ![HB] = "lock"]
            /\ cnRes' = [cnRes EXCEPT ![HB] = "none"]
            /\ UNCHANGED netVars
  /\ res' = [res EXCEPT ![HB] = NoRes]
  /\ UNCHANGED <<hbCh, mtx, pingVars, startPc, stopVars, srPc>>

\* a loop that logs a failed ping and waits for the next tick without
\* reconnecting
HbAfterPing_NoReconnect ==
  /\ hbPc = "ping"
  /\ srPc[HB] = "idle"
  /\ hbPc' = IF ping(res[HB]) = "unexpected" THEN "terminated" ELSE "select"
  /\ res' = [res EXCEPT ![HB] = NoRes]
  /\ UNCHANGED <<tickConnects, cnVars>>
  /\ UNCHANGED <<hbCh, mtx, netVars, pingVars, startPc, stopVars, srPc>>

\* lines 90-97: ping returned; nil loops, ErrUnexpectedResponse returns,
\* any other error calls connect. err goes out of scope here.
HbAfterPing ==
  /\ hbPc = "ping"
  /\ srPc[HB] = "idle"
  /\ IF ping(res[HB]) = "none"
       THEN /\ hbPc' = "select"
            /\ UNCHANGED <<tickConnects, cnVars>>
       ELSE IF ping(res[HB]) = "unexpected"
       THEN /\ hbPc' = "terminated"
            /\ UNCHANGED <<tickConnects, cnVars>>
       ELSE /\ hbPc' = "connect"
            /\ tickConnects' = tickConnects + 1
            /\ cnPc' = [cnPc EXCEPT ![HB] = "lock"]
            /\ cnRes' = [cnRes EXCEPT ![HB] = "none"]
  /\ res' = [res EXCEPT ![HB] = NoRes]
  /\ UNCHANGED <<hbCh, mtx, netVars, pingVars, startPc, stopVars, srPc>>

\* a loop that calls connect again at once when connect failed
HbAfterConnect_RetryNow ==
  /\ hbPc = "connect"
  /\ cnPc[HB] = "idle"
  /\ IF cnRes[HB] = "err" /\ tickConnects < 2
       THEN /\ tickConnects' = tickConnects + 1
            /\ cnPc' = [cnPc EXCEPT ![HB] = "lock"]
            /\ cnRes' = [cnRes EXCEPT ![HB] = "none"]
            /\ UNCHANGED hbPc
       ELSE /\ hbPc' = IF cnRes[HB] = "closed" THEN "terminated" ELSE "select"
            /\ tickConnects' = 0
            /\ UNCHANGED cnVars
  /\ UNCHANGED <<hbCh, mtx, netVars, pingVars, startPc, stopVars, srVars>>

\* a loop that keeps probing when connect reported the listener closed
HbAfterConnect_IgnoreClosed ==
  /\ hbPc = "connect"
  /\ cnPc[HB] = "idle"
  /\ hbPc' = "select"
  /\ tickConnects' = 0
  /\ UNCHANGED <<hbCh, mtx, netVars, pingVars, startPc, stopVars, srVars, cnVars>>

\* lines 98-107: connect returned; err continues, closed returns, else loops
HbAfterConnect ==
  /\ hbPc = "connect"
  /\ cnPc[HB] = "idle"
  /\ hbPc' = IF cnRes[HB] = "closed" THEN "terminated" ELSE "select"
  /\ tickConnects' = 0
  /\ UNCHANGED <<hbCh, mtx, netVars, pingVars, startPc, stopVars, srVars, cnVars>>

----------------------------------------------------------------------------
\* ---- OnStop (lines 120-126) and Close (lines 129-149) ----
StopReturned == stopPc = "done" \/ stopCalls >= 2

\* Stop is called on a started endpoint, one call at a time
OnStopCall ==
  /\ startPc = "done"
  /\ stopPc \in {"idle", "done"}
  /\ stopCalls < MaxStops
  /\ stopCalls' = stopCalls + 1
  /\ stopPc' = "closeCh"
  /\ UNCHANGED <<mtx, netVars, pingVars, startPc, hbVars, srVars, cnVars>>

\* lines 121-122: if ve.cancelPingCh != nil { close(ve.cancelPingCh)
OnStopCloseCh ==
  /\ stopPc = "closeCh"
  /\ IF cancelPingCh # NIL
       THEN /\ chClosed' = TRUE
            /\ panicked' = (panicked \/ chClosed)
            /\ stopPc' = "nilCh"
       ELSE /\ stopPc' = "lock"
            /\ UNCHANGED <<chClosed, panicked>>
  /\ UNCHANGED <<cancelPingCh, ticker, tickPending, stopCalls>>
  /\ UNCHANGED <<mtx, netVars, startPc, hbVars, srVars, cnVars>>

\* OnStop that closes the channel and keeps the reference
OnStopNilCh_KeepCh ==
  /\ stopPc = "nilCh"
  /\ stopPc' = "lock"
  /\ UNCHANGED <<cancelPingCh, chClosed, panicked, ticker, tickPending, stopCalls>>
  /\ UNCHANGED <<mtx, netVars, startPc, hbVars, srVars, cnVars>>

\* line 123: ve.cancelPingCh = nil
OnStopNilCh ==
  /\ stopPc = "nilCh"
  /\ cancelPingCh' = NIL
  /\ stopPc' = "lock"
  /\ UNCHANGED <<chClosed, panicked, ticker, tickPending, stopCalls>>
  /\ UNCHANGED <<mtx, netVars, startPc, hbVars, srVars, cnVars>>

\* line 130: ve.mtx.Lock()
CloseLock ==
  /\ stopPc = "lock"
  /\ mtx = Free
  /\ mtx' = "stop"
  /\ stopPc' = "closeConn"
  /\ UNCHANGED <<stopCalls, netVars, pingVars, startPc, hbVars, srVars, cnVars>>

\* lines 133-139: close the connection; an error returns at once
CloseConn ==
  /\ stopPc = "closeConn"
  /\ IF conn = NoConn
       THEN /\ stopPc' = "closeLn"
            /\ UNCHANGED <<mtx, conn, closedOk, cst, inbox, replies>>
       ELSE /\ ConnClosed(conn)
            /\ \E o \in ConnCloseOutcomes(conn) :
                 IF o = "ok"
                   THEN /\ conn' = NoConn
                        /\ closedOk' = FALSE
                        /\ stopPc' = "closeLn"
                        /\ UNCHANGED mtx
                   ELSE /\ stopPc' = "done"
                        /\ mtx' = Free
                        /\ UNCHANGED <<conn, closedOk>>
  /\ UNCHANGED <<listener, backlog, nextConn, stopCalls>>
  /\ UNCHANGED <<pingVars, startPc, hbVars, srVars, cnVars>>

\* lines 141-148: close the listener, the deferred Unlock, the return
CloseListener ==
  /\ stopPc = "closeLn"
  /\ listener' = "closed"
  /\ backlog' = FALSE
  /\ mtx' = Free
  /\ stopPc' = "done"
  /\ UNCHANGED <<conn, nextConn, closedOk, cst, inbox, replies, stopCalls>>
  /\ UNCHANGED <<pingVars, startPc, hbVars, srVars, cnVars>>

Close == CloseLock \/ CloseConn \/ CloseListener

OnStart == OnStartCall \/ OnStartFinish
Heartbeat == HbSelectEnter \/ HbRecvTick \/ HbRecvCancel \/ HbAfterPing \/ HbAfterConnect
OnStop == OnStopCall \/ OnStopCloseCh \/ OnStopNilCh

Next ==
  \/ PeerDial \/ PeerReply \/ PeerDisconnect \/ Tick
  \/ OnStartCall \/ OnStartFinish
  \/ HbSelectEnter \/ HbRecvTick \/ HbRecvCancel \/ HbAfterPing \/ HbAfterConnect
  \/ OnStopCall \/ OnStopCloseCh \/ OnStopNilCh
  \/ CloseLock \/ CloseConn \/ CloseListener
  \/ \E p \in Connectors : ConnectLock(p) \/ ConnectCloseOld(p) \/ ConnectAccept(p)
  \/ \E p \in Exchangers :
       SendRequestCall(p) \/ SendRequestLock(p) \/ SendRequestWrite(p) \/ SendRequestRead(p)

Spec == Init /\ [][Next]_vars

\* Scheduling the code can rely on: every step of the endpoint's own code that
\* is ready to run runs; sync.Mutex hands the lock to a waiter that keeps
\* waiting (starvation mode); select picks a ready case at random, so a case
\* that is ready again and again is picked; the ticker ticks; Accept returns
\* once a peer has dialled or the listener is closed. Nothing obliges the
\* remote signer to dial, answer or disconnect, a caller to call SendRequest
\* or Stop, or Accept to fail while the listener is open.
Fairness ==
  /\ WF_vars(Tick)
  /\ WF_vars(OnStartFinish)
  /\ WF_vars(HbSelectEnter) /\ WF_vars(HbRecvTick) /\ SF_vars(HbRecvCancel)
  /\ WF_vars(HbAfterPing) /\ WF_vars(HbAfterConnect)
  /\ WF_vars(OnStopCloseCh) /\ WF_vars(OnStopNilCh)
  /\ SF_vars(CloseLock) /\ WF_vars(CloseConn) /\ WF_vars(CloseListener)
  /\ \A p \in Connectors :
       /\ SF_vars(ConnectLock(p))
       /\ WF_vars(ConnectCloseOld(p))
       /\ WF_vars((backlog \/ listener = "closed") /\ ConnectAccept(p))
  /\ \A p \in Exchangers :
       /\ SF_vars(SendRequestLock(p))
       /\ WF_vars(SendRequestWrite(p))
       /\ WF_vars(SendRequestRead(p))

FairSpec == Spec /\ Fairness

\* FairSpec narrowed to the runs in which no Accept blocks for ever (a signer
\* dials or the listener's accept deadline expires): every run of it is a run
\* of FairSpec.
AcceptReturns == \A p \in Connectors : WF_vars(ConnectAccept(p))

FairSpecAcceptReturns == FairSpec /\ AcceptReturns

\* The scheduling a reconnect of the loop relies on, and no more: the ticker
\* ticks, the goroutine's own steps run, the mutex reaches the goroutine when
\* it keeps asking, a caller that holds the mutex finishes its exchange, and
\* an Accept that is called again and again while the signer's connection
\* waits in the backlog returns that connection.
RecoveryFairness ==
  /\ WF_vars(Tick)
  /\ WF_vars(HbSelectEnter) /\ WF_vars(HbRecvTick)
  /\ WF_vars(HbAfterPing) /\ WF_vars(HbAfterConnect)
  /\ SF_vars(SendRequestLock(HB)) /\ SF_vars(ConnectLock(HB))
  /\ WF_vars(ConnectCloseOld(HB))
  /\ SF_vars(ConnectAccept(HB) /\ cnRes'[HB] = "ok")
  /\ \A p \in Exchangers :
       WF_vars(SendRequestWrite(p)) /\ WF_vars(SendRequestRead(p))

FairSpecRecovery == Spec /\ RecoveryFairness

TypeOK ==
  /\ mtx \in {Free, "start", "stop"} \cup Exchangers
  /\ conn \in {NoConn} \cup ConnIds
  /\ nextConn \in 1..(MaxConns + 1)
  /\ tickConnects \in 0..2

----------------------------------------------------------------------------
\* ---- properties ----

\* p is between the start of its write and the end of its read
InExchange(p) == srPc[p] \in {"write", "read"}

\* C1: at most one exchange (an external SendRequest or a heartbeat probe) is
\* between the start of its write and the end of its read.
C1_ExchangesMutuallyExclusive ==
  \A p, q \in Exchangers : (InExchange(p) /\ InExchange(q)) => p = q

\* an exchange has written and waits to read while the other exchanger waits
\* for the mutex
C1_Witness ==
  /\ srPc["c1"] = "read"
  /\ srPc[HB] = "lock"

\* C2: the response an exchange returns is the peer's answer to the request
\* that this same exchange wrote.
C2_ResponseAnswersOwnRequest ==
  \A p \in Exchangers : res[p].err = "none" => res[p].resp.to = p

\* connections the endpoint accepted and has not closed
HeldOpen == {c \in ConnIds : cst[c].local = "open"}

\* C3: the endpoint holds at most one connection, every open accepted
\* connection is the one ve.conn refers to, and when ve.conn is replaced by a
\* newly accepted connection the one held before has been closed.
C3_SingleActiveConnection ==
  /\ [](Cardinality(HeldOpen) <= 1 /\ HeldOpen \subseteq {conn})
  /\ [][(conn' # conn /\ conn' # NoConn /\ conn # NoConn)
          => cst[conn].local = "closed"]_vars

\* a reconnect has happened: the first connection is closed, the second is held
C3_Witness ==
  /\ conn = 2
  /\ cst[1].local = "closed"
  /\ cst[2].local = "open"

\* C4: once Stop has returned, no connector enters connect or reaches Accept.
C4_NoConnectAfterStop ==
  [][StopReturned =>
       \A p \in Connectors :
         cnPc'[p] \in {"lock", "accept"} => cnPc'[p] = cnPc[p]]_vars

\* C5: once Stop has been called while the heartbeat loop runs, the loop
\* eventually terminates, wherever in the loop the call found it.
C5_LoopTerminatesAfterStop ==
  (stopCalls >= 1 /\ hbPc # "terminated") ~> (hbPc = "terminated")

\* C6: a call of Stop eventually returns.
C6_StopReturns ==
  (stopPc \notin {"idle", "done"}) ~> (stopPc = "done")

\* no step of the goroutine after it has returned: no probe, no connect
HbStaysTerminated ==
  hbPc = "terminated" =>
    (hbPc' = "terminated" /\ srPc'[HB] = "idle" /\ cnPc'[HB] = "idle")

\* C7: a probe answered by a well-formed message that is not a PingResponse
\* ends the loop at once, without a connect call, and the loop never runs again.
C7_UnexpectedResponseIsFatal ==
  /\ [][(hbPc = "ping" /\ srPc[HB] = "idle" /\ ping(res[HB]) = "unexpected")
          => (hbPc' \in {"ping", "terminated"} /\ cnPc'[HB] = "idle")]_vars
  /\ [][HbStaysTerminated]_vars

\* the loop has returned with the ticker never stopped and the listener open:
\* neither the cancel case nor a closed listener ended it
C7_Witness ==
  /\ hbPc = "terminated"
  /\ ticker = "running"
  /\ listener = "open"
  /\ cnRes[HB] = "none"

\* C8: a probe that fails with any error other than ErrUnexpectedResponse is
\* followed by exactly one connect call in that tick; when that connect fails
\* the loop goes back to waiting for the next tick; no tick makes two calls.
C8_OneConnectPerFailedProbe ==
  /\ [](tickConnects = IF hbPc = "connect" THEN 1 ELSE 0)
  /\ [][(hbPc = "ping" /\ srPc[HB] = "idle"
            /\ ping(res[HB]) \notin {"none", "unexpected"})
          => (hbPc' = "ping" \/ (hbPc' = "connect" /\ cnPc'[HB] = "lock"))]_vars
  /\ [][(hbPc = "connect" /\ cnPc[HB] = "idle" /\ cnRes[HB] = "err")
          => (hbPc' \in {"connect", "select"} /\ cnPc'[HB] = "idle")]_vars

\* the reconnect of a tick failed and the loop waits for the next tick
C8_Witness ==
  /\ hbPc = "wait"
  /\ cnRes[HB] = "err"
  /\ listener = "open"

\* C9: when the first connect returns an error or reports the listener closed,
\* Start fails and makes no channel, no ticker and no goroutine.
C9_FailedStartLaunchesNothing ==
  /\ [](startPc = "failed" =>
          /\ cancelPingCh = NIL /\ ~chClosed
          /\ ticker = "none" /\ ~tickPending
          /\ hbPc = "notLaunched" /\ srPc[HB] = "idle" /\ cnPc[HB] = "idle")
  /\ [][(startPc = "connect" /\ cnPc["start"] = "idle"
            /\ cnRes["start"] \in {"err", "closed"})
          => startPc' \in {"connect", "failed"}]_vars
  /\ [][startPc = "failed" => startPc' = "failed"]_vars

\* Start has failed because the first connect found the listener closed
C9_Witness ==
  /\ startPc = "failed"
  /\ cnRes["start"] = "closed"

\* C10: when a reconnect of the loop reports the listener closed the loop
\* returns, and afterwards it takes no tick, sends no probe and calls no connect.
C10_ListenerClosureEndsLoop ==
  /\ [][(hbPc = "connect" /\ cnPc[HB] = "idle" /\ cnRes[HB] = "closed")
          => hbPc' \in {"connect", "terminated"}]_vars
  /\ [][HbStaysTerminated /\ (hbPc = "terminated" /\ tickPending => tickPending')]_vars

\* the loop has returned after its reconnect reported the listener closed
C10_Witness ==
  /\ hbPc = "terminated"
  /\ cnRes[HB] = "closed"

\* C11: the channel is closed once over all calls of Stop: a close never hits
\* a closed channel, and a call that finds the channel closed finds the
\* reference nil and skips the close.
C11_StopIdempotent ==
  /\ [](~panicked)
  /\ [][chClosed => ~(stopPc = "closeCh" /\ stopPc' = "nilCh")]_vars
  /\ []((stopPc = "closeCh" /\ chClosed) => cancelPingCh = NIL)

\* a second call of Stop has returned
C11_Witness ==
  /\ stopCalls = 2
  /\ stopPc = "done"
  /\ chClosed

\* C12: every return of Close comes after an attempt to close the listener,
\* also when closing the connection failed.
C12_CloseAttemptsListener ==
  [][(stopPc # "done" /\ stopPc' = "done") => stopPc = "closeLn"]_vars

\* C13: SendRequest with no connection held returns the not-connected error,
\* writes and reads no frame and leaves connection and listener as they were.
C13_NotConnected ==
  [][\A p \in Exchangers :
       (srPc[p] = "write" /\ conn = NoConn /\ srPc'[p] # "write")
         => /\ srPc'[p] = "idle"
            /\ res'[p] = ErrRes("notconn")
            /\ mtx' = Free
            /\ UNCHANGED netVars]_vars

\* an external caller got the not-connected error on a started endpoint
C13_Witness ==
  /\ res["c1"] = ErrRes("notconn")
  /\ startPc = "done"

\* C14: the return of the loop on ErrUnexpectedResponse changes neither the
\* connection nor the listener, and until Stop is called the endpoint keeps
\* its connection held and open and its listener open.
C14_HeartbeatDeathKeepsLink ==
  /\ [][(hbPc = "ping" /\ hbPc' = "terminated") => UNCHANGED netVars]_vars
  /\ []((hbPc = "terminated" /\ stopCalls = 0) =>
          /\ conn # NoConn
          /\ cst[conn].local = "open"
          /\ listener = "open")

\* the loop has returned, Stop was not called, and an external exchange on
\* the connection is about to read the answer to its own request
C14_Witness ==
  /\ hbPc = "terminated"
  /\ stopCalls = 0
  /\ srPc["c1"] = "read"
  /\ replies[conn] # <<>>
  /\ Head(replies[conn]).to = "c1"

\* C16: while an exchange is between its write and its read it holds the
\* mutex, and no step replaces, drops or closes the connection it wrote on.
C16_ExchangeAtomic ==
  /\ [](\A p \in Exchangers : InExchange(p) => mtx = p)
  /\ [][\A p \in Exchangers :
          srPc[p] = "read" => (conn' = conn /\ cst'[conn].local = cst[conn].local)]_vars

\* an exchange has written and not yet read while the loop's connect and
\* Stop's Close both wait for the mutex
C16_Witness ==
  /\ srPc["c1"] = "read"
  /\ cnPc[HB] = "lock"
  /\ stopPc = "lock"

\* C17: whenever the heartbeat loop has terminated the ticker is stopped.
C17_TickerStoppedWhenTerminated ==
  hbPc = "terminated" => ticker = "stopped"

\* C18: a call of SendRequest writes once and reads once at most, returns the
\* error of its write or of its read as its result, and no step of it
\* touches ve.conn or enters connect.
C18_NoRetryNoReconnect ==
  /\ [][\A p \in Exchangers :
          /\ (srPc[p] = "write" /\ srPc'[p] # "write") =>
                IF writeMessage = "none"
                  THEN srPc'[p] = "read" /\ Len(inbox'[conn]) = Len(inbox[conn]) + 1
                  ELSE srPc'[p] = "idle" /\ res'[p] = ErrRes(writeMessage)
          /\ (srPc[p] = "read" /\ srPc'[p] # "read") =>
                (srPc'[p] = "idle" /\ res'[p] \in readMessage)]_vars
  /\ [][(srPc' # srPc /\ hbPc' = hbPc) =>
          (conn' = conn /\ cnPc' = cnPc /\ listener' = listener)]_vars

\* an external caller got the timeout of its read as its result
C18_Witness ==
  res["c1"] = ErrRes("timeout")

\* C19: whenever the mutex is free ve.conn is nil or refers to a connection on
\* which the endpoint's Close has not returned nil; a connect that returned an
\* error or closed leaves ve.conn nil, and so does a Close that closed the
\* connection, so SendRequest then takes the not-connected path.
C19_NoClosedConnectionHeld ==
  /\ [](mtx = Free => (conn = NoConn \/ ~closedOk))
  /\ [](\A p \in Connectors :
          (cnPc[p] = "idle" /\ cnRes[p] \in {"err", "closed"}) => conn = NoConn)
  /\ [][(stopPc = "closeConn" /\ stopPc' = "closeLn") => conn' = NoConn]_vars
  /\ [](stopPc = "closeLn" => conn = NoConn)

\* the loop's connect closed the old connection and Accept failed: no
\* connection is held, the mutex is free and an external caller is about to
\* take it
C19_Witness ==
  /\ cnRes[HB] = "err"
  /\ cnPc[HB] = "idle"
  /\ mtx = Free
  /\ cst[1].local = "closed"
  /\ srPc["c1"] = "lock"

====
